---- MODULE Spec2Model ----
(***************************************************************************)
(* State-machine model of the ComfyUI cache engine (src/cache_engine.py)   *)
(* and of the two host nodes that drive it (src/nodes.py).                 *)
(*                                                                         *)
(* The module-level singleton global_cache (a SimpleCache) is the only     *)
(* cache instance the nodes ever use, so its fields are the variables      *)
(* call_count, skip_count, compute_times and last_result.  The host's      *)
(* objects are modelled structurally: an object either has an attribute    *)
(* or has not, and an attribute holds None or another object.              *)
(*                                                                         *)
(* Tensors are abstracted to a record [kind, data, origin]: data is an     *)
(* integer in units of the noise scale 0.001 and origin tells which buffer *)
(* the value lives in (the one the original forward returned, the clone    *)
(* kept by the cache, or the freshly synthesized last_result + noise).     *)
(***************************************************************************)
EXTENDS Integers, Sequences, FiniteSets, TLC

\* ---------------------------------------------------------------- constants

\* `call_id > 3` in cached_forward: the first three calls always compute.
WARMUP_THRESHOLD == 3

\* `call_id % 2 == 0` in cached_forward: every second call is skip-eligible.
SKIP_INTERVAL == 2

\* Bound on the number of invocations of a wrapped forward in one behaviour
\* of the full system.
MaxCalls == 7

\* The same bound for the runs in which every computation returns a tensor.
MaxTensorCalls == 10

\* The same bound for the runs that exercise the patcher on every handle.
MaxPatcherCalls == 1

\* The same bound for the runs in which the host mutates what it was handed.
MaxHostCalls == 5

\* The same bound for the host's successive runs, and the number of runs.
MaxSharedCalls == 5
MaxRuns == 3

\* Calls of a wrapped forward the host's threads begin.
MaxThreadCalls == 5

\* Elapsed times time.time() - start_time can take (abstract ticks).
Durations == {1, 2}

\* Values of one element of torch.randn_like(...) * 0.001, in noise units.
Noise == {-1, 0, 1}

\* What the original forward can do: return a tensor, return something that
\* is not a tensor (a tuple, None, ...), or raise.
ResultKinds == {"tensor", "other", "raise"}

\* Objects that own a forward attribute, and one that does not.
Targets == {"t1", "t2"}
Bare == "bare"
Objects == Targets \cup {Bare}

\* An attribute is missing, holds None, or holds an object.
Missing == "missing"
Null == "null"
AttrVals == {Missing, Null} \cup Objects

\* Positional/keyword arguments the host passes; transformer_options is
\* either absent from kwargs or a dict.
Args == {[x |-> 1, transformer_options |-> Missing],
         [x |-> 2, transformer_options |-> "dict"]}

\* Host model handles.  `model` is the attribute model.model (missing, None
\* or an inner object); model_diffusion_model is the attribute
\* diffusion_model of that inner object and is missing unless there is one.
Models ==
  {m \in [model : {Missing, Null, "obj"},
          model_diffusion_model : AttrVals,
          diffusion_model : AttrVals,
          transformer : AttrVals] :
     m.model # "obj" => m.model_diffusion_model = Missing}

\* ------------------------------------------------------------------- values

\* self._last_result is never assigned in __init__: the attribute is absent.
Absent == [kind |-> "absent", data |-> 0, origin |-> "none"]
NoValue == [kind |-> "none", data |-> 0, origin |-> "none"]

\* isinstance(v, torch.Tensor)
IsTensor(v) == v.kind = "tensor"

\* The value the original forward returns at wrapper call n (0 for a direct
\* call of an unwrapped forward): its data identifies the computing call.
OriginalResult(k, n) ==
  [kind |-> k, data |-> n * 10, origin |-> "forward"]

\* result.clone().detach(): same contents in a buffer of its own.
Clone(v) == [v EXCEPT !.origin = "clone"]

\* self._last_result + noise: a new tensor.
AddNoise(v, nz) == [kind |-> "tensor", data |-> v.data + nz, origin |-> "synth"]

VARIABLES
  call_count,        \* SimpleCache.call_count
  skip_count,        \* SimpleCache.skip_count
  compute_times,     \* SimpleCache.compute_times
  last_result,       \* SimpleCache._last_result (Absent until first stored)
  forward,           \* forward[t]: what attribute t.forward refers to
  original_forward,  \* original_forward[t]: attribute t._original_forward
  ret,               \* what the last operation did and returned
  invoked_at,        \* call ids at which the wrapper invoked the original
  last_completed,    \* call id of the latest call whose original returned
  substituted_at,    \* call ids at which the wrapper returned a substitute
  run,               \* the host's current inference run: its number, the
                     \* target it patched and the calls it has made so far
  owner,             \* the target and run whose computation _last_result
                     \* was copied from
  called,            \* the targets whose wrapper has been called
  thread,            \* thread[i]: where host thread i stands in a call of
                     \* cached_forward, and its locals
  begun,             \* calls of cached_forward the threads have begun
  overlapped         \* some call began while another was in progress

vars == <<call_count, skip_count, compute_times, last_result, forward,
          original_forward, ret, invoked_at, last_completed, substituted_at,
          run, owner, called, thread, begun, overlapped>>

cache == <<call_count, skip_count, compute_times, last_result>>
patch == <<forward, original_forward>>
ghost == <<invoked_at, last_completed, substituted_at>>
sessions == <<run, owner, called>>
threads == <<thread, begun, overlapped>>

\* The host's threads that may call a patched forward.
Threads == {1, 2}

NoArgs == [x |-> 0, transformer_options |-> Missing]
NoModel ==
  [model |-> Missing, model_diffusion_model |-> Missing,
   diffusion_model |-> Missing, transformer |-> Missing]

\* The numbers get_stats formats into its string.
NoStats ==
  [total_calls |-> 0, cache_hits |-> 0, hit_rate |-> 0,
   avg_compute_time |-> 0, speedup |-> 0]

\* The record every operation leaves in ret: the operation and its inputs
\* (model, target, args), how it ended (outcome, value), how often it invoked
\* the original forward, whose, and with which arguments (invoked, callee,
\* passed), and the call id the wrapper read.
NoRet ==
  [op |-> "none", model |-> NoModel, target |-> Missing, args |-> NoArgs,
   passed |-> NoArgs, callee |-> Missing,
   outcome |-> "none", value |-> NoValue, invoked |-> 0,
   call_id |-> 0, trigger |-> Missing, stats |-> NoStats]

\* Before the first run, before any result was stored, and a thread that
\* is not inside cached_forward.
NoRun == [no |-> 0, target |-> Missing, calls |-> 0]
NoOwner == [target |-> Missing, run |-> 0]
NoCall ==
  [pc |-> "idle", target |-> Missing, args |-> NoArgs, pos |-> 0, reg |-> 0,
   call_id |-> 0, outcome |-> "none"]

Init ==
  /\ call_count = 0
  /\ skip_count = 0
  /\ compute_times = <<>>
  /\ last_result = Absent
  /\ forward = [t \in Targets |-> "original"]
  /\ original_forward = [t \in Targets |-> Missing]
  /\ ret = NoRet
  /\ invoked_at = {}
  /\ last_completed = 0
  /\ substituted_at = {}
  /\ run = NoRun
  /\ owner = NoOwner
  /\ called = {}
  /\ thread = [i \in Threads |-> NoCall]
  /\ begun = 0
  /\ overlapped = FALSE

\* ------------------------------------------------------------------ patcher

\* hasattr(o, name), given the value v the attribute lookup yields.
HasAttr(v) == v # Missing

\* _find_transformer probing the shallow paths before the nested one.
FindTransformerShallowFirst(m) ==
  IF HasAttr(m.transformer)
    THEN m.transformer
  ELSE IF HasAttr(m.diffusion_model)
    THEN m.diffusion_model
  ELSE IF HasAttr(m.model) /\ HasAttr(m.model_diffusion_model)
    THEN m.model_diffusion_model
  ELSE Null

\* SimpleCache._find_transformer: the three paths in priority order; None
\* (Null) when no path is present.
FindTransformer(m) ==
  IF HasAttr(m.model) /\ HasAttr(m.model_diffusion_model)
    THEN m.model_diffusion_model
  ELSE IF HasAttr(m.diffusion_model)
    THEN m.diffusion_model
  ELSE IF HasAttr(m.transformer)
    THEN m.transformer
  ELSE Null

\* patch_model without its idempotency guard.
AlreadyPatchedUnchecked(o) == FALSE

\* hasattr(transformer, '_original_forward'): the idempotency guard.
AlreadyPatched(o) == o \in Targets /\ HasAttr(original_forward[o])

\* hasattr(transformer, 'forward'): reading transformer.forward raises
\* AttributeError on an object without it.
HasForward(o) == o \in Targets

\* patch_model starting a new count of calls whenever it is applied.
PatchModelResetting(m) ==
  LET transformer == FindTransformer(m)
      done(outcome) == [NoRet EXCEPT !.op = "patch_model", !.model = m,
                                     !.target = transformer,
                                     !.outcome = outcome]
  IN
  /\ call_count' = 0
  /\ UNCHANGED <<skip_count, compute_times, last_result, ghost>>
  /\ IF transformer = Null \/ AlreadyPatched(transformer)
       THEN /\ ret' = done("returned_model")
            /\ UNCHANGED patch
     ELSE IF ~HasForward(transformer)
       THEN /\ ret' = done("AttributeError")
            /\ UNCHANGED patch
     ELSE /\ original_forward' =
                [original_forward EXCEPT ![transformer] = forward[transformer]]
          /\ forward' = [forward EXCEPT ![transformer] = "cached_forward"]
          /\ ret' = done("returned_model")

\* SimpleCache.patch_model (reached through patch_model_simple and
\* CacheDitAccelerateNode.accelerate_model, which pass the model through).
PatchModel(m) ==
  LET transformer == FindTransformer(m)
      done(outcome) == [NoRet EXCEPT !.op = "patch_model", !.model = m,
                                     !.target = transformer,
                                     !.outcome = outcome]
  IN
  /\ UNCHANGED <<cache, ghost>>
  /\ IF transformer = Null
       THEN /\ ret' = done("returned_model")
            /\ UNCHANGED patch
     ELSE IF AlreadyPatched(transformer)
       THEN /\ ret' = done("returned_model")
            /\ UNCHANGED patch
     ELSE IF ~HasForward(transformer)
       THEN /\ ret' = done("AttributeError")
            /\ UNCHANGED patch
     ELSE /\ original_forward' =
                [original_forward EXCEPT ![transformer] = forward[transformer]]
          /\ forward' = [forward EXCEPT ![transformer] = "cached_forward"]
          /\ ret' = done("returned_model")

\* ------------------------------------------------------------ policy engine

\* The skip cadence on the other parity.
ShouldSkipOddCalls(call_id) ==
  call_id > WARMUP_THRESHOLD /\ call_id % SKIP_INTERVAL = 1

\* A skip cadence that tries every call after the warm-up.
ShouldSkipEveryCall(call_id) == call_id > WARMUP_THRESHOLD

\* The skip cadence without the warm-up test.
ShouldSkipNoWarmup(call_id) == call_id % SKIP_INTERVAL = 0

\* `if call_id > 3 and call_id % 2 == 0`
ShouldSkip(call_id) ==
  call_id > WARMUP_THRESHOLD /\ call_id % SKIP_INTERVAL = 0

\* The cache test without hasattr: `self._last_result is not None`.
HasLastResultUnguarded(lr) == lr.kind # "null"

\* `hasattr(self, '_last_result') and self._last_result is not None`
HasLastResult(lr) == lr # Absent /\ lr.kind # "null"

\* The append in a finally block: a raise is timed too.
RecordTimeAlways(times, raised, d) == Append(times, d)

\* Only the latest measurement kept: `self.compute_times = [compute_time]`.
RecordTimeLatestOnly(times, raised, d) ==
  IF raised THEN times ELSE <<d>>

\* compute_times after the call of the original forward: the append is
\* behind the call, so a raise leaves the list as it was.
RecordTime(times, raised, d) ==
  IF raised THEN times ELSE Append(times, d)

\* The result cached without clone(): the cache keeps the host's buffer.
StoreResultAliasing(lr, result) ==
  IF IsTensor(result) THEN result ELSE lr

\* The result cached once and never replaced.
StoreResultOnce(lr, result) ==
  IF IsTensor(result) /\ lr = Absent THEN Clone(result) ELSE lr

\* _last_result after a real computation returned `result`.
StoreResult(lr, result) ==
  IF IsTensor(result) THEN Clone(result) ELSE lr

\* A counter that stops counting once the warm-up is over.
IncrementInWarmupOnly(c) == IF c <= WARMUP_THRESHOLD THEN c + 1 ELSE c

\* `self.call_count += 1`: the value written for a counter read as c.
Increment(c) == c + 1

\* The call of the original with the positional arguments only.
PassedArgsPositionalOnly(a) == [a EXCEPT !.transformer_options = Missing]

\* `transformer._original_forward(*args, **kwargs)`: what the original
\* receives when the wrapper was called with a.
PassedArgs(a) == a

\* The closure cached_forward from its first print to its return, for a
\* call on target t with arguments a that read call_id at its start.  What
\* the environment contributes is drawn where the
\* code obtains it: the noise nz from torch.randn_like, what the original
\* forward does (k), and the elapsed time d measured around it.
CachedForwardBody(t, a, call_id) ==
  LET eligible == ShouldSkip(call_id)
      usable == eligible /\ HasLastResult(last_result)
      done(outcome, value, invoked) ==
        [NoRet EXCEPT !.op = "cached_forward", !.target = t, !.args = a,
                      !.passed = IF invoked = 1 THEN PassedArgs(a) ELSE NoArgs,
                      !.callee = IF invoked = 1 THEN t ELSE Missing,
                      !.outcome = outcome, !.value = value,
                      !.invoked = invoked, !.call_id = call_id]
  IN
  /\ skip_count' = IF eligible THEN skip_count + 1 ELSE skip_count
  /\ UNCHANGED patch
  /\ IF usable /\ last_result = Absent
       \* reading an attribute that was never set
       THEN /\ ret' = done("AttributeError", NoValue, 0)
            /\ UNCHANGED <<compute_times, last_result, ghost>>
     ELSE IF usable /\ IsTensor(last_result)
       THEN /\ \E nz \in Noise :
                 ret' = done("substituted", AddNoise(last_result, nz), 0)
            /\ substituted_at' = substituted_at \cup {call_id}
            /\ UNCHANGED <<compute_times, last_result, invoked_at,
                           last_completed>>
     ELSE IF original_forward[t] # "original"
       \* transformer._original_forward is the wrapper itself: it re-enters
       \* without end
       THEN /\ ret' = done("RecursionError", NoValue, 0)
            /\ UNCHANGED <<compute_times, last_result, ghost>>
     ELSE /\ invoked_at' = invoked_at \cup {call_id}
          /\ UNCHANGED substituted_at
          /\ \E k \in ResultKinds, d \in Durations :
               LET result == OriginalResult(k, call_id) IN
               /\ compute_times' = RecordTime(compute_times, k = "raise", d)
               /\ IF k = "raise"
                    THEN /\ ret' = done("raised", NoValue, 1)
                         /\ UNCHANGED <<last_result, last_completed>>
                    ELSE /\ ret' = done("computed", result, 1)
                         /\ last_result' = StoreResult(last_result, result)
                         /\ last_completed' = call_id

\* The closure cached_forward that patch_model installed on target t, called
\* through t.forward with arguments a and run from its first line to its
\* return.
CachedForward(t, a) ==
  /\ forward[t] = "cached_forward"
  /\ call_count' = Increment(call_count)
  /\ CachedForwardBody(t, a, Increment(call_count))

\* A call of a target's forward while it still is the original one.
OriginalForward(t, a, k) ==
  /\ forward[t] = "original"
  /\ ret' = [NoRet EXCEPT !.op = "forward", !.target = t, !.args = a,
                          !.passed = a, !.callee = t, !.invoked = 1,
                          !.outcome = IF k = "raise" THEN "raised"
                                      ELSE "computed",
                          !.value = IF k = "raise" THEN NoValue
                                    ELSE OriginalResult(k, 0)]
  /\ UNCHANGED <<cache, patch, ghost>>

\* ------------------------------------------------------- the host's buffers

\* Two tensor values live in the same buffer: origin and contents name it.
SameBuffer(a, b) ==
  a.kind = "tensor" /\ b.kind = "tensor" /\ a.origin = b.origin
    /\ a.data = b.data

\* An in-place update of a buffer (result.add_(...)) and the buffers it has
\* not touched yet.
Mutated(v) == [v EXCEPT !.data = @ + 5]
Unmutated(v) == v.data % 10 \in {0, 1, 9}

\* Tensors the host holds: the value the last call returned, and the result
\* the cache copied its _last_result from (cached_forward returned it too).
HostHeld ==
  (IF ret.op = "cached_forward" /\ IsTensor(ret.value)
     THEN {ret.value} ELSE {})
  \cup
  (IF IsTensor(last_result)
     THEN {OriginalResult("tensor", last_result.data \div 10)} ELSE {})

\* The host updates in place a tensor cached_forward returned to it.  The
\* update reaches _last_result only if that is the same buffer.
HostMutates(v) ==
  /\ v \in HostHeld
  /\ Unmutated(v)
  /\ ret' = [NoRet EXCEPT !.op = "host_mutation", !.value = Mutated(v)]
  /\ last_result' = IF SameBuffer(last_result, v) THEN Mutated(last_result)
                    ELSE last_result
  /\ UNCHANGED <<call_count, skip_count, compute_times, patch, ghost>>

\* ------------------------------------------------------------------- report

RECURSIVE SumSeq(_)
SumSeq(s) == IF s = <<>> THEN 0 ELSE Head(s) + SumSeq(Tail(s))

Max(a, b) == IF a >= b THEN a ELSE b

\* n / d rounded to the nearest integer, as the format specs .1f and .3f
\* round the last digit they print.
RoundDiv(n, d) == (2 * n + d) \div (2 * d)

\* SimpleCache.get_stats (reached through get_simple_stats and
\* CacheDitStatsNode.get_stats, which drops its trigger).  Durations are in
\* seconds; hit_rate is in tenths of a percent, avg_compute_time in
\* thousandths of a second and speedup in tenths, the digits printed.
GetStats(trigger) ==
  LET total_calls == call_count
      cache_hits == skip_count
  IN
  /\ ret' = [NoRet EXCEPT
               !.op = "get_stats", !.trigger = trigger, !.outcome = "returned",
               !.stats = [total_calls |-> total_calls,
                          cache_hits |-> cache_hits,
                          hit_rate |->
                            RoundDiv(cache_hits * 1000, Max(total_calls, 1)),
                          avg_compute_time |->
                            RoundDiv(SumSeq(compute_times) * 1000,
                                     Max(Len(compute_times), 1)),
                          speedup |-> IF cache_hits > 0 THEN 20 ELSE 10]]
  /\ UNCHANGED <<cache, patch, ghost>>

\* ----------------------------------------------------------- the host's runs

\* The host executes a workflow: the accelerate node patches the model it is
\* given (patch_model_simple on the one global_cache), and the sampler then
\* calls that model's forward once per step.
StartRun(m) ==
  /\ run.no < MaxRuns
  /\ PatchModel(m)
  /\ run' = [no |-> run.no + 1, target |-> FindTransformer(m), calls |-> 0]
  /\ UNCHANGED <<owner, called, threads>>

RunForward(a) ==
  /\ run.target \in Targets
  /\ call_count < MaxSharedCalls
  /\ CachedForward(run.target, a)
  /\ run' = [run EXCEPT !.calls = @ + 1]
  /\ called' = called \cup {run.target}
  /\ owner' = IF ret'.outcome = "computed" /\ IsTensor(ret'.value)
                THEN [target |-> run.target, run |-> run.no]
                ELSE owner
  /\ UNCHANGED threads

\* -------------------------------------------------------- the host's threads

\* Thread i calls t.forward, which is cached_forward.
Begin(i, t, a) ==
  /\ thread[i].pc = "idle"
  /\ begun < MaxThreadCalls
  /\ forward[t] = "cached_forward"
  /\ begun' = begun + 1
  /\ thread' = [thread EXCEPT ![i] =
                  [NoCall EXCEPT !.pc = "load", !.target = t, !.args = a,
                                 !.pos = begun + 1]]
  /\ overlapped' =
       (overlapped \/ \E j \in Threads \ {i} : thread[j].pc # "idle")
  /\ UNCHANGED <<cache, patch, ghost, ret, sessions>>

\* `self.call_count += 1` reads the attribute ...
LoadCount(i) ==
  /\ thread[i].pc = "load"
  /\ thread' = [thread EXCEPT ![i].pc = "store", ![i].reg = call_count]
  /\ UNCHANGED <<cache, patch, ghost, ret, sessions, begun, overlapped>>

\* ... and writes the sum back.
StoreCount(i) ==
  /\ thread[i].pc = "store"
  /\ call_count' = Increment(thread[i].reg)
  /\ thread' = [thread EXCEPT ![i].pc = "read"]
  /\ UNCHANGED <<skip_count, compute_times, last_result, patch, ghost, ret,
                 sessions, begun, overlapped>>

\* A call id taken from the value read for the increment.
ReadCallIdBeforeIncrement(i) ==
  /\ thread[i].pc = "read"
  /\ thread' = [thread EXCEPT ![i].pc = "body", ![i].call_id = thread[i].reg]
  /\ UNCHANGED <<cache, patch, ghost, ret, sessions, begun, overlapped>>

\* `call_id = self.call_count`
ReadCallId(i) ==
  /\ thread[i].pc = "read"
  /\ thread' = [thread EXCEPT ![i].pc = "body", ![i].call_id = call_count]
  /\ UNCHANGED <<cache, patch, ghost, ret, sessions, begun, overlapped>>

\* The rest of cached_forward, with the call id the thread holds.
Finish(i) ==
  /\ thread[i].pc = "body"
  /\ CachedForwardBody(thread[i].target, thread[i].args, thread[i].call_id)
  /\ UNCHANGED call_count
  /\ thread' = [thread EXCEPT ![i].pc = "idle", ![i].outcome = ret'.outcome]
  /\ UNCHANGED <<sessions, begun, overlapped>>

\* ------------------------------------------------------------ specification

\* A step of the host outside its runs and threads.
Plain == UNCHANGED <<sessions, threads>>

\* Values the host wires into the stats node's trigger input.
Triggers == {"latent", "image"}

Handle(mm, mdm, dm, tr) ==
  [model |-> mm, model_diffusion_model |-> mdm, diffusion_model |-> dm,
   transformer |-> tr]

\* The handles the host passes to the accelerate node in the full system:
\* no path, the nested path, only model.transformer, two paths at once, None
\* under a path that outranks a real target, and a target without forward.
HostModels ==
  {Handle(Missing, Missing, Missing, Missing),
   Handle("obj", "t1", Missing, Missing),
   Handle(Missing, Missing, Missing, "t2"),
   Handle("obj", "t1", Missing, "t2"),
   Handle(Missing, Missing, Null, "t2"),
   Handle(Missing, Missing, Missing, Bare)}

Next ==
  \/ \E m \in HostModels : PatchModel(m) /\ Plain
  \/ /\ call_count < MaxCalls
     /\ \E t \in Targets, a \in Args : CachedForward(t, a) /\ Plain
  \/ \E t \in Targets, a \in Args, k \in ResultKinds :
        OriginalForward(t, a, k) /\ Plain
  \/ \E g \in Triggers : GetStats(g) /\ Plain

Spec == Init /\ [][Next]_vars

\* One target, patched through the nested path, whose original forward
\* always returns a tensor.
TensorModel == Handle("obj", "t1", Missing, Missing)

ReturnsTensor == ret'.outcome # "raised" /\ IsTensor(ret'.value)

NextTensor ==
  \/ PatchModel(TensorModel) /\ Plain
  \/ /\ call_count < MaxTensorCalls
     /\ \E a \in Args : CachedForward("t1", a) /\ ReturnsTensor /\ Plain
  \/ \E g \in Triggers : GetStats(g) /\ Plain

SpecTensor == Init /\ [][NextTensor]_vars

\* The patcher against every shape of handle, with a few calls in between.
NextPatcher ==
  \/ \E m \in Models : PatchModel(m) /\ Plain
  \/ /\ call_count < MaxPatcherCalls
     /\ \E t \in Targets, a \in Args : CachedForward(t, a) /\ Plain

SpecPatcher == Init /\ [][NextPatcher]_vars

\* The host mutating the tensors it was handed, between the calls.
NextHost ==
  \/ \E m \in HostModels : PatchModel(m) /\ Plain
  \/ /\ call_count < MaxHostCalls
     /\ \E t \in Targets, a \in Args : CachedForward(t, a) /\ Plain
  \/ \E v \in HostHeld : HostMutates(v) /\ Plain

SpecHost == Init /\ [][NextHost]_vars

\* Runs of the host one after the other, each on one of two models with a
\* target of its own.
SharedModels ==
  {Handle("obj", "t1", Missing, Missing), Handle(Missing, Missing, Missing, "t2")}

NextShared ==
  \/ \E m \in SharedModels : StartRun(m)
  \/ \E a \in Args : RunForward(a)

SpecShared == Init /\ [][NextShared]_vars

\* Two threads of the host calling the patched forward of one target, whose
\* original always returns a tensor after one tick.
TensorInOneTick ==
  /\ ReturnsTensor
  /\ compute_times' \in {compute_times, Append(compute_times, 1)}

ThreadArgs == {a \in Args : a.transformer_options = "dict"}

NextThreads ==
  \/ PatchModel(TensorModel) /\ Plain
  \/ \E i \in Threads, a \in ThreadArgs : Begin(i, "t1", a)
  \/ \E i \in Threads : LoadCount(i)
  \/ \E i \in Threads : StoreCount(i)
  \/ \E i \in Threads : ReadCallId(i)
  \/ \E i \in Threads : Finish(i) /\ TensorInOneTick

SpecThreads == Init /\ [][NextThreads]_vars

\* --------------------------------------------------------------- properties

\* What a step of cached_forward leaves in ret.
Wrapped == ret.op = "cached_forward"
Substituted == Wrapped /\ ret.outcome = "substituted"
Computed == Wrapped /\ ret.outcome = "computed"
Raised == Wrapped /\ ret.outcome = "raised"

\* C1: from a fresh cache, with one patched target whose computations all
\* return tensors, a call at position n > 3 is skipped (a substitute, the
\* original not invoked) iff n is even and computes otherwise; ten calls
\* compute at {1,2,3,5,7,9}, skip at {4,6,8,10} and end with skip_count 4 of
\* call_count 10, which get_stats reports as a hit rate of 40.0%.
C1_SkipIffEven ==
  /\ \A n \in 1..call_count :
       IF n > 3 /\ n % 2 = 0
         THEN n \in substituted_at /\ n \notin invoked_at
         ELSE n \in invoked_at /\ n \notin substituted_at
  /\ call_count = 10 =>
       /\ invoked_at = {1, 2, 3, 5, 7, 9}
       /\ substituted_at = {4, 6, 8, 10}
       /\ skip_count = 4
       /\ ret.op = "get_stats" =>
            /\ ret.stats.cache_hits = 4
            /\ ret.stats.total_calls = 10
            /\ ret.stats.hit_rate = 400

C1_TenthCallSkipped ==
  /\ call_count = 10
  /\ Substituted
  /\ ret.call_id = 10
  /\ skip_count = 4

\* C2: during the first WARMUP_THRESHOLD invocations from a fresh cache every
\* call invokes the original forward, none returns a substitute and
\* skip_count stays 0, whatever the computations return.
C2_WarmupAlwaysComputes ==
  call_count <= WARMUP_THRESHOLD =>
    /\ skip_count = 0
    /\ substituted_at = {}
    /\ invoked_at = 1..call_count
    /\ Wrapped => ret.invoked = 1

C2_ThreeCallsNoTensor ==
  /\ call_count = WARMUP_THRESHOLD
  /\ Computed
  /\ ~IsTensor(ret.value)
  /\ last_result = Absent

\* C3: skip_count equals the number of invocations that returned a
\* substitute instead of invoking the original forward.
C3_SkipCountCountsSubstitutes ==
  skip_count = Cardinality(substituted_at)

\* C4: a computation that returns a non-tensor is returned uncached, and a
\* skip-eligible call only returns a substitute when last_result comes from
\* the most recent real computation: with a stale or undefined last_result
\* it computes.
C4_StaleCacheFallsBack ==
  /\ (Computed /\ ~IsTensor(ret.value)) =>
       /\ ret.value = OriginalResult("other", ret.call_id)
       /\ last_result.data # ret.value.data
  /\ Substituted =>
       /\ last_result # Absent
       /\ last_result.data = last_completed * 10

\* C5: a skip attempt with last_result undefined never surfaces as an error
\* and never returns an undefined value: the call invokes the original and
\* returns what it returns.  Every invocation ends with the original's
\* outcome or with a substitute built from a defined last_result.
C5_UndefinedCacheFallsBack ==
  [][ret'.op = "cached_forward" =>
       /\ ret'.outcome \in {"computed", "raised", "substituted"}
       /\ last_result = Absent =>
            /\ ret'.outcome \in {"computed", "raised"}
            /\ ret'.invoked = 1
       /\ ret'.outcome = "computed" =>
            /\ ret'.invoked = 1
            /\ \E k \in {"tensor", "other"} :
                 ret'.value = OriginalResult(k, ret'.call_id)
       /\ ret'.outcome = "raised" => ret'.invoked = 1
       /\ ret'.outcome = "substituted" =>
            /\ ret'.invoked = 0
            /\ IsTensor(last_result)
            /\ \E nz \in Noise : ret'.value = AddNoise(last_result, nz)
     ]_vars

C5_FellBackAtSkipPosition ==
  /\ Computed
  /\ ret.call_id > WARMUP_THRESHOLD
  /\ ret.call_id % SKIP_INTERVAL = 0
  /\ last_result = Absent

\* C6: once a target is patched, no operation changes its installed entry
\* point or its saved original; a repeated patch returns the input model;
\* the saved original is never a wrapper, so one invocation of the wrapper
\* invokes the real computation at most once.
C6_PatchIdempotent ==
  [][/\ \A t \in Targets :
          HasAttr(original_forward[t]) =>
            /\ forward'[t] = forward[t]
            /\ original_forward'[t] = original_forward[t]
     /\ \A t \in Targets :
          /\ original_forward'[t] \in {Missing, "original"}
          /\ forward'[t] = "cached_forward" <=>
               original_forward'[t] = "original"
     /\ (/\ ret'.op = "patch_model"
         /\ ret'.target \in Targets
         /\ HasAttr(original_forward[ret'.target])) =>
          ret'.outcome = "returned_model"
     /\ ret'.op = "cached_forward" =>
          /\ ret'.invoked <= 1
          /\ ret'.outcome # "RecursionError"
    ]_vars

C6_PatchedAgainAfterCalls ==
  /\ ret.op = "patch_model"
  /\ ret.target = "t1"
  /\ forward["t1"] = "cached_forward"
  /\ forward["t2"] = "original"
  /\ call_count > 0

\* The sub-object of the first of the three paths that is present, None when
\* none is: the paths as the list the host sees.
PathValues(m) ==
  <<IF m.model = "obj" THEN m.model_diffusion_model ELSE Missing,
    m.diffusion_model, m.transformer>>

FirstPresent(m) ==
  LET present == {i \in 1..3 : PathValues(m)[i] # Missing} IN
  IF present = {} THEN Null
  ELSE PathValues(m)[CHOOSE i \in present : \A j \in present : i <= j]

\* C7: locate yields the sub-object of the highest-priority path present
\* (model.model.diffusion_model, model.diffusion_model, model.transformer);
\* when no path is present it yields not-found and patch returns the input
\* model with no entry point, Patch State or Cache State changed.
C7_LocatePriority ==
  [][ret'.op = "patch_model" =>
       /\ ret'.target = FirstPresent(ret'.model)
       /\ (\A i \in 1..3 : PathValues(ret'.model)[i] = Missing) =>
            /\ ret'.target = Null
            /\ ret'.outcome = "returned_model"
            /\ UNCHANGED <<cache, patch>>
     ]_vars

C7_NestedPathWins ==
  /\ ret.op = "patch_model"
  /\ ret.model.model_diffusion_model = "t1"
  /\ ret.model.diffusion_model = Bare
  /\ ret.model.transformer = "t2"
  /\ ret.target = "t1"
  /\ forward["t1"] = "cached_forward"
  /\ forward["t2"] = "original"

\* C8: patch never raises, whatever the shape of the host object.
C8_PatchNeverRaises ==
  ret.op = "patch_model" => ret.outcome = "returned_model"

\* C9: when the original forward raises, the failure reaches the caller
\* after exactly one invocation of the original; no duration is appended,
\* last_result keeps its value and the call is counted in call_count.
C9_RaisePropagates ==
  [][(ret'.op = "cached_forward" /\ ret'.outcome = "raised") =>
       /\ ret'.invoked = 1
       /\ ret'.value = NoValue
       /\ compute_times' = compute_times
       /\ last_result' = last_result
       /\ call_count' = call_count + 1
       /\ ret'.call_id \in invoked_at' \ invoked_at
     ]_vars

C9_RaisedWithCacheFilled ==
  /\ Raised
  /\ IsTensor(last_result)
  /\ Len(compute_times) >= 2
  /\ call_count = Len(compute_times) + Cardinality(substituted_at) + 1

\* C10: skip_count never exceeds call_count.
C10_SkipsAtMostCalls == skip_count <= call_count

C10_AfterEveryKindOfCall ==
  /\ Raised
  /\ substituted_at # {}
  /\ skip_count > Cardinality(substituted_at)
  /\ forward["t1"] = "cached_forward"
  /\ forward["t2"] = "cached_forward"

\* C11: get_stats is a read-only snapshot: it changes no field of the cache,
\* never fails, reports the counters whatever the trigger is, a hit rate of
\* 0 when call_count is 0, an average of 0 when compute_times is empty, and
\* the speed-up label 2.0 exactly when at least one call has been skipped
\* (1.0 otherwise).
C11_ReportSnapshot ==
  [][ret'.op = "get_stats" =>
       /\ UNCHANGED <<cache, patch>>
       /\ ret'.outcome = "returned"
       /\ ret'.stats.total_calls = call_count
       /\ ret'.stats.cache_hits = skip_count
       /\ call_count = 0 => ret'.stats.hit_rate = 0
       /\ compute_times = <<>> => ret'.stats.avg_compute_time = 0
       /\ ret'.stats.speedup = IF substituted_at # {} THEN 20 ELSE 10
     ]_vars

\* C12: last_result only ever holds the output of a real computation.  A
\* skipped call leaves last_result and compute_times as they were and does
\* not invoke the original, so last_result is never a synthesized value and
\* carries no noise; after a real computation that returns a tensor,
\* last_result is a copy of that tensor.
C12_LastResultIsComputed ==
  [][/\ (ret'.op = "cached_forward" /\ ret'.outcome = "substituted") =>
          /\ last_result' = last_result
          /\ compute_times' = compute_times
          /\ invoked_at' = invoked_at
          /\ ret'.invoked = 0
     /\ last_result' # Absent =>
          \E n \in invoked_at' :
            last_result' = Clone(OriginalResult("tensor", n))
     /\ (/\ ret'.op = "cached_forward"
         /\ ret'.outcome = "computed"
         /\ IsTensor(ret'.value)) =>
          last_result' = Clone(ret'.value)
    ]_vars

C12_SecondSkipKeepsResult ==
  /\ Substituted
  /\ Cardinality(substituted_at) >= 2
  /\ last_result = Clone(OriginalResult("tensor", ret.call_id - 1))

\* C13: compute_times has one entry per completed real computation: it is
\* empty at first, grows by exactly one entry in an invocation whose original
\* forward is invoked and returns (a tensor or not), and is left alone by
\* every other step: a skipped call, a raising call, patch and report.
C13_OneDurationPerComputation ==
  /\ compute_times = <<>>
  /\ [][IF ret'.op = "cached_forward" /\ ret'.outcome = "computed"
          THEN /\ ret'.invoked = 1
               /\ \E d \in Durations :
                    compute_times' = Append(compute_times, d)
          ELSE compute_times' = compute_times
       ]_vars

C13_FewerDurationsThanCalls ==
  /\ Computed
  /\ ~IsTensor(ret.value)
  /\ substituted_at # {}
  /\ Cardinality(invoked_at) > Len(compute_times)
  /\ Len(compute_times) >= 3

\* C14: no value handed to the host shares a buffer with last_result: a
\* real computation stores a copy of its own, a skip returns a newly built
\* tensor, and a host mutation of a returned value leaves last_result as it
\* was.
C14_NoAliasing ==
  [][/\ IsTensor(last_result') => last_result'.origin = "clone"
     /\ (ret'.op = "cached_forward" /\ IsTensor(ret'.value)) =>
          /\ ret'.value.origin =
               IF ret'.outcome = "substituted" THEN "synth" ELSE "forward"
          /\ ~SameBuffer(last_result', ret'.value)
     /\ ret'.op = "host_mutation" => last_result' = last_result
    ]_vars

C14_SourceOfCacheMutated ==
  /\ ret.op = "host_mutation"
  /\ ret.value = Mutated(OriginalResult("tensor", last_completed))
  /\ last_result = Clone(OriginalResult("tensor", last_completed))

\* C15: on every call that takes the real-computation path the wrapper
\* invokes the saved original of the target it was installed on, with
\* exactly the arguments it received, and returns exactly what the original
\* returned.
C15_PassThrough ==
  (Wrapped /\ ret.invoked = 1) =>
    /\ ret.callee = ret.target
    /\ original_forward[ret.target] = "original"
    /\ ret.passed = ret.args
    /\ ret.outcome \in {"computed", "raised"}
    /\ ret.outcome = "computed" =>
         ret.value = OriginalResult(ret.value.kind, ret.call_id)

C15_KeywordArgumentsPassed ==
  /\ Computed
  /\ IsTensor(ret.value)
  /\ ret.target = "t2"
  /\ forward["t1"] = "cached_forward"
  /\ ret.args.transformer_options = "dict"
  /\ ret.passed.transformer_options = "dict"

\* C16: every call of a wrapped forward, whether it computes, substitutes,
\* falls back or fails, raises call_count by exactly 1; no operation lowers
\* it, and patch_model (successful, repeated or without a target) and
\* get_stats leave call_count and skip_count as they were.
C16_CallCountMonotonic ==
  [][/\ ret'.op = "cached_forward" => call_count' = call_count + 1
     /\ ret'.op \in {"patch_model", "get_stats", "forward"} =>
          UNCHANGED <<call_count, skip_count>>
     /\ call_count' >= call_count]_vars

C16_CountedThroughEveryOutcome ==
  /\ ret.op = "patch_model"
  /\ ret.target = Null
  /\ call_count = 6
  /\ skip_count = 2
  /\ substituted_at = {6}
  /\ Len(compute_times) < 5

\* C17: called one after the other, no two consecutive calls both return a
\* substitute: the call before a substituted call n invoked the original,
\* and so does the call after it once it has been made.
C17_NoConsecutiveSkips ==
  \A n \in substituted_at :
    /\ n - 1 \in invoked_at
    /\ n + 1 \notin substituted_at
    /\ n + 1 <= call_count => n + 1 \in invoked_at

C17_ComputedBetweenTwoSkips ==
  /\ substituted_at = {4, 6}
  /\ call_count = 7
  /\ 5 \in invoked_at
  /\ 7 \in invoked_at

\* C18: the one cache is shared by every patched target and every run and
\* is never reset: once call_count is above 3 it stays above 3, so the first
\* call of a later run, or of a target patched later, is answered with a
\* substitute whenever its call number is even and a _last_result exists,
\* and the substitute derives from a result computed in an earlier run or by
\* the other target.
C18_SharedAcrossRunsAndTargets ==
  [][/\ call_count > 3 => call_count' > 3
     /\ (/\ ret'.op = "cached_forward"
         /\ ret' # ret
         /\ run.calls = 0 \/ ret'.target \notin called
         /\ ret'.call_id > 3
         /\ ret'.call_id % 2 = 0
         /\ last_result # Absent)
        => /\ ret'.outcome = "substituted"
           /\ ret'.invoked = 0
           /\ \E nz \in Noise : ret'.value = AddNoise(last_result, nz)
           /\ last_result.data \div 10 \in invoked_at
           /\ last_result.data \div 10 < ret'.call_id
           /\ run.calls = 0 => owner.run \in 1 .. (run.no - 1)
           /\ ret'.target \notin called =>
                owner.target \in Targets \ {ret'.target}]_vars

C18_SecondTargetServedFromFirst ==
  /\ Substituted
  /\ ret.call_id = 4
  /\ ret.target = "t2"
  /\ run = [no |-> 2, target |-> "t2", calls |-> 1]
  /\ owner = [target |-> "t1", run |-> 1]
  /\ last_completed = 3

\* C19: the cache is not safe for calls that overlap, the increment of
\* call_count and the read of the call id being separate steps (two calls can
\* read the same id and an increment can be lost); as long as no call begins
\* while another is in progress, each call reads an id equal to its
\* 1-indexed position, distinct from every other call's, and call_count is
\* the number of calls made.
C19_SequentialCallIds ==
  ~overlapped =>
    /\ \A i \in Threads :
         (thread[i].pc = "body" \/ (thread[i].pc = "idle" /\ thread[i].pos > 0))
           => thread[i].call_id = thread[i].pos
    /\ \A i \in Threads : \A j \in Threads \ {i} :
         thread[i].call_id > 0 => thread[i].call_id # thread[j].call_id
    /\ (\A i \in Threads : thread[i].pc = "idle") => call_count = begun
    /\ (\A i \in Threads : thread[i].pc = "idle") /\ Wrapped =>
         ret.call_id = begun

C19_OverlapSharesCallId ==
  /\ overlapped
  /\ \A i \in Threads :
       /\ thread[i].pc = "idle"
       /\ thread[i].call_id = 4
       /\ thread[i].outcome = "substituted"
  /\ {thread[i].pos : i \in Threads} = {4, 5}
  /\ begun = 5
  /\ call_count = 4
  /\ skip_count = 2

====
